---- MODULE Spec2Model ----
(***************************************************************************)
(* AutoBackup.py: a watchdog listener thread records the time of the last  *)
(* file change in BackupHandler.last_change_time; the main thread polls    *)
(* should_backup once a second and, when it answers True, runs             *)
(* create_backup (snapshot write, stamp last_backup_time, cleanup_backups).*)
(*                                                                         *)
(* Time is counted in whole seconds.  `now` is time.time(); the name of a  *)
(* backup is built from datetime.now(), the local wall clock, modelled as  *)
(* now - tz, where tz is what the local clock has been set back by.        *)
(***************************************************************************)
EXTENDS Integers, Sequences, FiniteSets, TLC

\* ------------------------------------------------------------- bounds
MaxTime == 5

\* what the local clock is set back by when it is set back (an hour when
\* daylight saving time ends): more than a cooldown and a poll together
FallBack == 3

\* ------------------------------------------------- command-line inputs
Cooldowns == {1, 2}
BufferSizes == {-1, 0, 1, 2}

VARIABLES
    now,               \* time.time(), whole seconds
    tz,                \* seconds the local wall clock has been set back by
    src_exists,        \* os.path.exists(source_path) at startup
    src_mtime,         \* modification time of the source directory itself
    cooldown,          \* BackupHandler.cooldown
    buffer_size,       \* BackupHandler.buffer_size
    use_zip,           \* BackupHandler.use_zip
    last_change_time,  \* BackupHandler.last_change_time
    last_backup_time,  \* BackupHandler.last_backup_time
    dir,               \* entries of backup_dir
    dir_exists,        \* backup_dir exists
    observing,         \* the Observer thread is running
    log_open,          \* the log file handle is open
    pc,                \* position of the main thread
    r_lct1,            \* should_backup: first read of last_change_time
    r_now,             \* should_backup: the value read from time.time()
    r_lct2,            \* should_backup: second read of last_change_time
    result,            \* should_backup: the value returned
    cur,               \* create_backup: name key of the artifact being written
    items,             \* cleanup_backups: the sorted listing, with the mtimes read
    todel,             \* cleanup_backups: items[buffer_size:] still to delete
    cycles,            \* number of create_backup calls so far
    err,               \* the exception that ended the main thread, or "none"
    uncovered          \* history: a change was recorded after the last snapshot began

vars == <<now, tz, src_exists, src_mtime, cooldown, buffer_size, use_zip,
          last_change_time, last_backup_time, dir, dir_exists, observing,
          log_open, pc,
          r_lct1, r_now, r_lct2, result, cur, items, todel, cycles, err, uncovered>>

env == <<src_exists, cooldown, buffer_size, use_zip>>
poll == <<r_lct1, r_now, r_lct2, result>>
cleanup == <<items, todel>>

\* --------------------------------------------------- directory entries
\* An entry of backup_dir.  kind: "zip" a file <name>.zip, "dir" a backup
\* directory <name>, "log" backup_log.txt, "other" a directory that is not
\* a backup.  ts is the timestamp in the name; cycle identifies the content
\* (the create_backup call that wrote it, 0 for what was there before).
Entry(k, t, m, c, n) == [kind |-> k, ts |-> t, mtime |-> m, complete |-> c, cycle |-> n]

Key(e) == <<e.kind, e.ts>>

Keys(d) == {Key(e) : e \in d}

Foreign == Entry("other", 0, 0, TRUE, 0)

\* a backup left by an earlier run
Earlier(zip) == Entry(IF zip THEN "zip" ELSE "dir", 0, 0, TRUE, 0)

LogFile == Entry("log", 0, 0, TRUE, 0)

IsDir(e) == e.kind \in {"dir", "other"}

EndsWithZip(e) == e.kind = "zip"

\* ----------------------------------------------------- should_backup
\* self.last_change_time > self.last_backup_time
ChangedSinceBackup(lct, lbt) == lct > lbt

CooldownElapsed_strict(t, lct, cd) == (t - lct) > cd

CooldownElapsed_early(t, lct, cd) == (t - lct) >= cd - 1

\* (time.time() - self.last_change_time) >= self.cooldown
CooldownElapsed(t, lct, cd) == (t - lct) >= cd

\* ----------------------------------------------------- create_backup
\* datetime.now().strftime("%Y-%m-%d_%H-%M-%S"): the local wall clock, to the second
Timestamp == now - tz

\* backup_name, with ".zip" appended in ZIP mode
BackupKey == <<IF use_zip THEN "zip" ELSE "dir", Timestamp>>

\* the modification time of a finished artifact: a ZIP file was last written
\* now; shutil.copytree ends with copystat(src, dst), which gives the copy the
\* modification time of the source directory
ArtifactMtime == IF use_zip THEN now ELSE src_mtime

\* --------------------------------------------------- cleanup_backups
Unlimited_negative(n) == n < 0

\* if self.buffer_size <= 0: return
Unlimited(n) == n <= 0

\* f.endswith(".zip") or os.path.isdir(os.path.join(self.backup_dir, f))
Candidates(d) == {e \in d : EndsWithZip(e) \/ IsDir(e)}

\* os.listdir: the entries in an order the file system chooses
Listings(S) ==
    {l \in [1..Cardinality(S) -> S] : \A i, j \in 1..Cardinality(S) : l[i] = l[j] => i = j}

\* one step of a stable sort, descending by modification time: x goes after
\* every element that is at least as recent
InsertDesc(s, x) ==
    LET n == Cardinality({i \in 1..Len(s) : s[i].mtime >= x.mtime})
    IN  SubSeq(s, 1, n) \o <<x>> \o SubSeq(s, n + 1, Len(s))

\* the listing sorted without reverse=True: oldest first
InsertAsc(s, x) ==
    LET n == Cardinality({i \in 1..Len(s) : s[i].mtime <= x.mtime})
    IN  SubSeq(s, 1, n) \o <<x>> \o SubSeq(s, n + 1, Len(s))

RECURSIVE SortAsc(_)
SortAsc(l) ==
    IF Len(l) = 0 THEN <<>>
    ELSE InsertAsc(SortAsc(SubSeq(l, 1, Len(l) - 1)), l[Len(l)])

RECURSIVE SortDesc(_)
\* sorted(..., key=getmtime, reverse=True): stable, equal keys keep listing order
SortDesc(l) ==
    IF Len(l) = 0 THEN <<>>
    ELSE InsertDesc(SortDesc(SubSeq(l, 1, Len(l) - 1)), l[Len(l)])

\* items[self.buffer_size:]
Surplus(s, n) == SubSeq(s, n + 1, Len(s))

KeysOf(s) == [i \in 1..Len(s) |-> Key(s[i])]

\* ------------------------------------------------------------- start
LoopPcs == {"sleep", "sb1", "sb2", "sb3", "sb4", "polled", "writing", "stamp",
            "cleanup", "deleting"}

Init ==
    /\ now = 1
    /\ tz = 0
    /\ src_exists \in BOOLEAN
    /\ src_mtime = 0
    /\ cooldown \in Cooldowns
    /\ buffer_size \in BufferSizes
    /\ use_zip \in BOOLEAN
    /\ last_change_time = 0
    /\ last_backup_time = 0
    /\ dir_exists \in BOOLEAN
    /\ dir = IF dir_exists THEN {Foreign, Earlier(use_zip)} ELSE {}
    /\ observing = FALSE
    /\ log_open = FALSE
    /\ pc = "start"
    /\ r_lct1 = 0 /\ r_now = 0 /\ r_lct2 = 0 /\ result = FALSE
    /\ cur = <<>>
    /\ items = <<>>
    /\ todel = <<>>
    /\ cycles = 0
    /\ err = "none"
    /\ uncovered = FALSE

\* start() without the test of line 76
Start_unchecked ==
    /\ pc = "start"
    /\ dir_exists' = TRUE
    /\ dir' = dir \cup {LogFile}
    /\ log_open' = TRUE
    /\ observing' = TRUE
    /\ pc' = "sleep"
    /\ UNCHANGED <<now, tz, src_mtime, env, last_change_time,
                   last_backup_time, poll, cur, cleanup, cycles, err,
                   uncovered>>

\* start(), lines 76-94: the source check, makedirs, the log, the observer
Start ==
    /\ pc = "start"
    /\ IF ~src_exists
       THEN /\ pc' = "exited"
            /\ UNCHANGED <<dir, dir_exists, observing, log_open>>
       ELSE /\ dir_exists' = TRUE
            /\ dir' = dir \cup {LogFile}
            /\ log_open' = TRUE
            /\ observing' = TRUE
            /\ pc' = "sleep"
    /\ UNCHANGED <<now, tz, src_mtime, env, last_change_time,
                   last_backup_time, poll, cur, cleanup, cycles, err,
                   uncovered>>

\* ------------------------------------------------------- environment
\* the clock reaches the next second: between the answer of should_backup and
\* the snapshot, and while the main thread is busy with file I/O (while it
\* sleeps, Sleep moves the clock)
Tick ==
    /\ pc \in {"polled", "writing", "deleting"}
    /\ now < MaxTime
    /\ now' = now + 1
    /\ UNCHANGED <<tz, src_mtime, env, last_change_time,
                   last_backup_time, dir, dir_exists, observing, log_open, pc,
                   poll, cur, cleanup, cycles, err, uncovered>>

\* the local wall clock is set back: datetime.now() is not monotonic.  It is
\* read in create_backup only, so the step is taken between two polls
ClockFallBack ==
    /\ pc = "sleep"
    /\ tz = 0
    /\ tz' = FallBack
    /\ UNCHANGED <<now, src_mtime, env, last_change_time, last_backup_time,
                   dir, dir_exists, observing, log_open, pc, poll, cur,
                   cleanup, cycles, err, uncovered>>

\* ---------------------------------------------------- listener thread
\* on_any_event: a file event stamps last_change_time, a directory event does
\* nothing.  structural: the change added or removed a child of the source
\* directory, which is what moves that directory's modification time (read by
\* copytree only, so it is followed in copy mode only).
Structurals == IF use_zip THEN {FALSE} ELSE BOOLEAN

\* on_any_event without the is_directory test
Deliver_any(is_directory, structural) ==
    /\ src_mtime' = IF structural THEN now ELSE src_mtime
    /\ last_change_time' = now /\ uncovered' = TRUE
    /\ UNCHANGED <<now, tz, env, last_backup_time, dir, dir_exists,
                   observing, log_open, pc, poll, cur, cleanup, cycles, err>>

\* on_any_event(event), lines 23-25
Deliver(is_directory, structural) ==
    /\ src_mtime' = IF structural THEN now ELSE src_mtime
    /\ IF ~is_directory
       THEN last_change_time' = now /\ uncovered' = TRUE
       ELSE UNCHANGED <<last_change_time, uncovered>>
    /\ UNCHANGED <<now, tz, env, last_backup_time, dir, dir_exists,
                   observing, log_open, pc, poll, cur, cleanup, cycles, err>>

\* the listener made to wait for a lock the main thread holds during a cycle
OnAnyEvent_locked ==
    /\ observing
    /\ pc \notin {"writing", "deleting"}
    /\ \E is_directory \in BOOLEAN, structural \in Structurals :
           Deliver(is_directory, structural)

OnAnyEvent ==
    /\ observing
    /\ \E is_directory \in BOOLEAN, structural \in Structurals :
           Deliver(is_directory, structural)

\* -------------------------------------------------------- main thread
ToSleep ==
    /\ pc' = "sleep"
    /\ r_lct1' = 0 /\ r_now' = 0 /\ r_lct2' = 0 /\ result' = FALSE
    /\ cur' = <<>>
    /\ items' = <<>>
    /\ todel' = <<>>

\* an exception other than KeyboardInterrupt leaves the while loop and start():
\* the process ends, and the daemon observer thread with it
Raise(e) ==
    /\ err' = e
    /\ pc' = "crashed"
    /\ observing' = FALSE

\* time.sleep(1), line 98
Sleep ==
    /\ pc = "sleep"
    /\ now < MaxTime
    /\ now' = now + 1
    /\ pc' = "sb1"
    /\ UNCHANGED <<tz, src_mtime, env, last_change_time,
                   last_backup_time, dir, dir_exists, observing, log_open,
                   poll, cur, cleanup, cycles, err, uncovered>>

\* should_backup, line 28: load self.last_change_time
ReadChange ==
    /\ pc = "sb1"
    /\ r_lct1' = last_change_time
    /\ pc' = "sb2"
    /\ UNCHANGED <<now, tz, src_mtime, env, last_change_time,
                   last_backup_time, dir, dir_exists, observing, log_open,
                   r_now, r_lct2, result, cur, cleanup, cycles, err,
                   uncovered>>

\* should_backup, line 28: load self.last_backup_time, compare; `and` stops here
\* when the comparison is false
CompareBackup ==
    /\ pc = "sb2"
    /\ IF ChangedSinceBackup(r_lct1, last_backup_time)
       THEN pc' = "sb3" /\ result' = result
       ELSE pc' = "polled" /\ result' = FALSE
    /\ UNCHANGED <<now, tz, src_mtime, env, last_change_time,
                   last_backup_time, dir, dir_exists, observing, log_open,
                   r_lct1, r_now, r_lct2, cur, cleanup, cycles, err,
                   uncovered>>

\* should_backup, line 28: time.time()
ReadClock ==
    /\ pc = "sb3"
    /\ r_now' = now
    /\ pc' = "sb4"
    /\ UNCHANGED <<now, tz, src_mtime, env, last_change_time,
                   last_backup_time, dir, dir_exists, observing, log_open,
                   r_lct1, r_lct2, result, cur, cleanup, cycles, err,
                   uncovered>>

\* should_backup, line 28: load self.last_change_time again, subtract, compare
CompareCooldown ==
    /\ pc = "sb4"
    /\ r_lct2' = last_change_time
    /\ result' = CooldownElapsed(r_now, last_change_time, cooldown)
    /\ pc' = "polled"
    /\ UNCHANGED <<now, tz, src_mtime, env, last_change_time,
                   last_backup_time, dir, dir_exists, observing, log_open,
                   r_lct1, r_now, cur, cleanup, cycles, err, uncovered>>

\* line 99 with should_backup() False: back to the top of the loop
NoBackup ==
    /\ pc = "polled"
    /\ ~result
    /\ ToSleep
    /\ UNCHANGED <<now, tz, src_mtime, env, last_change_time,
                   last_backup_time, dir, dir_exists, observing, log_open,
                   cycles, err, uncovered>>

\* create_backup handed to a thread of its own: the loop goes back to sleep
\* while the snapshot is being written
WriteBegin_detached ==
    /\ pc = "polled"
    /\ result
    /\ cycles' = cycles + 1
    /\ uncovered' = FALSE
    /\ cur' = BackupKey
    /\ dir' = {e \in dir : Key(e) # BackupKey}
              \cup {Entry(BackupKey[1], BackupKey[2], now, FALSE, cycles + 1)}
    /\ pc' = "sleep"
    /\ UNCHANGED <<now, tz, src_mtime, env, last_change_time,
                   last_backup_time, dir_exists, log_open, poll, cleanup, err,
                   observing>>

\* create_backup, lines 31-36 and 44-45: the name is computed and the artifact
\* appears under it.  ZipFile(zip_path, "w") creates the file or truncates the
\* one that is there; copytree makedirs the destination and raises
\* FileExistsError when it is there
WriteBegin ==
    /\ pc = "polled"
    /\ result
    /\ cycles' = cycles + 1
    /\ uncovered' = FALSE
    /\ cur' = BackupKey
    /\ IF ~use_zip /\ BackupKey \in Keys(dir)
       THEN /\ Raise("exists")
            /\ dir' = dir
       ELSE /\ dir' = {e \in dir : Key(e) # BackupKey}
                      \cup {Entry(BackupKey[1], BackupKey[2], now, FALSE, cycles + 1)}
            /\ pc' = "writing"
            /\ UNCHANGED <<err, observing>>
    /\ UNCHANGED <<now, tz, src_mtime, env, last_change_time,
                   last_backup_time, dir_exists, log_open, poll, cleanup>>

\* the artifact cannot be created at all (open or makedirs raises OSError)
OpenFail ==
    /\ pc = "polled"
    /\ result
    /\ BackupKey \notin Keys(dir)
    /\ cycles' = cycles + 1
    /\ uncovered' = FALSE
    /\ cur' = BackupKey
    /\ Raise("write")
    /\ UNCHANGED <<now, tz, src_mtime, env, last_change_time,
                   last_backup_time, dir, dir_exists, log_open, poll,
                   cleanup>>

\* the snapshot is written in full: the with block closes the archive, or
\* copytree returns (lines 36-42, 45-46)
WriteEnd ==
    /\ pc = "writing"
    /\ dir' = {e \in dir : Key(e) # cur}
              \cup {Entry(cur[1], cur[2], ArtifactMtime, TRUE, cycles)}
    /\ pc' = "stamp"
    /\ UNCHANGED <<now, tz, src_mtime, env, last_change_time,
                   last_backup_time, dir_exists, observing, log_open, poll,
                   cur, cleanup, cycles, err, uncovered>>

\* the error of the snapshot write swallowed: the cycle goes on to line 48
WriteFail_swallowed ==
    /\ pc = "writing"
    /\ dir' = {e \in dir : Key(e) # cur}
              \cup {Entry(cur[1], cur[2], ArtifactMtime, FALSE, cycles)}
    /\ pc' = "stamp"
    /\ UNCHANGED <<now, tz, src_mtime, env, last_change_time,
                   last_backup_time, dir_exists, observing, log_open, poll,
                   cur, cleanup, cycles, err, uncovered>>

\* the snapshot write raises part-way (zipf.write or copytree): the with block
\* closes the truncated archive, copytree leaves what it copied and still
\* copystats the destination; nothing removes the artifact
WriteFail ==
    /\ pc = "writing"
    /\ dir' = {e \in dir : Key(e) # cur}
              \cup {Entry(cur[1], cur[2], ArtifactMtime, FALSE, cycles)}
    /\ Raise("write")
    /\ UNCHANGED <<now, tz, src_mtime, env, last_change_time,
                   last_backup_time, dir_exists, log_open, poll, cur, cleanup,
                   cycles, uncovered>>

StampBackup_skipped ==
    /\ pc = "stamp"
    /\ pc' = "cleanup"
    /\ UNCHANGED <<now, tz, src_mtime, env, last_change_time,
                   last_backup_time, dir, dir_exists, observing, log_open,
                   poll, cur, cleanup, cycles, err, uncovered>>

\* self.last_backup_time = time.time(), line 48
StampBackup ==
    /\ pc = "stamp"
    /\ last_backup_time' = now
    /\ pc' = "cleanup"
    /\ UNCHANGED <<now, tz, src_mtime, env, last_change_time, dir,
                   dir_exists, observing, log_open, poll, cur, cleanup,
                   cycles, err, uncovered>>

\* cleanup_backups, lines 52-58: the early return, or the listing sorted and
\* cut after the first buffer_size items
CleanupList ==
    /\ pc = "cleanup"
    /\ IF Unlimited(buffer_size)
       THEN ToSleep
       ELSE /\ \E l \in Listings(Candidates(dir)) :
                 /\ items' = SortDesc(l)
                 /\ todel' = KeysOf(Surplus(SortDesc(l), buffer_size))
            /\ pc' = "deleting"
            /\ UNCHANGED <<poll, cur>>
    /\ UNCHANGED <<now, tz, src_mtime, env, last_change_time,
                   last_backup_time, dir, dir_exists, observing, log_open,
                   cycles, err, uncovered>>

\* cleanup_backups, lines 59-65: one round of the for loop, or its end
CleanupDelete ==
    /\ pc = "deleting"
    /\ IF todel = <<>>
       THEN ToSleep /\ dir' = dir
       ELSE /\ dir' = {e \in dir : Key(e) # Head(todel)}
            /\ todel' = Tail(todel)
            /\ UNCHANGED <<pc, poll, cur, items>>
    /\ UNCHANGED <<now, tz, src_mtime, env, last_change_time,
                   last_backup_time, dir_exists, observing, log_open, cycles,
                   err, uncovered>>

\* shutil.rmtree or os.remove raises (artifact locked, permission denied)
DeleteFail ==
    /\ pc = "deleting"
    /\ todel # <<>>
    /\ Raise("delete")
    /\ UNCHANGED <<now, tz, src_mtime, env, last_change_time,
                   last_backup_time, dir, dir_exists, log_open, poll, cur,
                   cleanup, cycles, uncovered>>

\* KeyboardInterrupt inside the try block, lines 101-104: observer.stop(),
\* observer.join(), log.close()
Interrupt ==
    /\ pc \in LoopPcs
    /\ observing' = FALSE
    /\ log_open' = FALSE
    /\ pc' = "stopped"
    /\ UNCHANGED <<now, tz, src_mtime, env, last_change_time,
                   last_backup_time, dir, dir_exists, poll, cur, cleanup,
                   cycles, err, uncovered>>

Next ==
    \/ Start
    \/ Tick
    \/ ClockFallBack
    \/ OnAnyEvent
    \/ Sleep
    \/ ReadChange
    \/ CompareBackup
    \/ ReadClock
    \/ CompareCooldown
    \/ NoBackup
    \/ WriteBegin
    \/ OpenFail
    \/ WriteEnd
    \/ WriteFail
    \/ StampBackup
    \/ CleanupList
    \/ CleanupDelete
    \/ DeleteFail
    \/ Interrupt

Spec == Init /\ [][Next]_vars

\* ================================================================ claims
Range(s) == {s[i] : i \in 1..Len(s)}

Min(a, b) == IF a <= b THEN a ELSE b

\* the poll has returned, and no change was recorded while it ran
PolledAfterChanges == pc = "polled" /\ last_change_time = r_lct1

\* the instant of the poll: the value it read from the clock, or, when it
\* answered before reading the clock, any instant
PollTimes == IF r_now # 0 THEN {r_now} ELSE 1..MaxTime

\* C1: for a poll at time t_p that follows the recorded changes, should_backup
\* returns true exactly when a change has been recorded, the most recent change
\* time is strictly greater than last_backup_time, and t_p minus the most
\* recent change time is at least the cooldown.
C1_DebounceIff ==
    PolledAfterChanges =>
        \A tp \in PollTimes :
            result = (/\ last_change_time # 0
                      /\ last_change_time > last_backup_time
                      /\ tp - last_change_time >= cooldown)

\* a second burst, after a first backup, is found due
C1_Witness ==
    /\ PolledAfterChanges
    /\ result
    /\ last_backup_time > 0
    /\ r_now - last_change_time = cooldown

\* C3: once a backup has completed and stamped last_backup_time, should_backup
\* answers True only when a change was recorded since, with a time strictly
\* greater than last_backup_time: one burst gives one backup.
C3_QuietAfterBackup ==
    (pc = "polled" /\ result) =>
        (uncovered /\ last_change_time > last_backup_time)

\* a poll after a completed backup, the cooldown long over, answers False
C3_Witness ==
    /\ pc = "polled"
    /\ ~result
    /\ cycles > 0
    /\ last_backup_time > 0
    /\ last_change_time # 0
    /\ last_change_time <= last_backup_time
    /\ now - last_change_time >= cooldown

C6_UnlimitedKeepsAll ==
    [][buffer_size <= 0 => Keys(dir) \subseteq Keys(dir')]_vars

\* two cycles have gone through cleanup with buffer_size 0, both artifacts there
C6_Witness ==
    /\ buffer_size = 0
    /\ pc = "sleep"
    /\ cycles >= 2
    /\ Cardinality({e \in dir : e.cycle > 0 /\ e.complete}) >= 2

\* C2: no change is lost.  A change recorded while a cycle is in flight, after
\* its snapshot began, has to be found by a later poll: when the cycle stamps
\* last_backup_time the change must still count as newer than the backup, or
\* no later poll starts the snapshot that covers it.
C2_NoChangeLost ==
    [][(pc = "stamp" /\ pc' = "cleanup" /\ uncovered) =>
           ChangedSinceBackup(last_change_time', last_backup_time')]_vars

\* C4: when the snapshot write fails, last_backup_time is as it was, the backup
\* condition still holds and the polling loop is still running.
C4_RetryAfterWriteFailure ==
    err = "write" =>
        /\ pc \in LoopPcs
        /\ ChangedSinceBackup(last_change_time, last_backup_time)

\* C7: a cycle whose name collides with an artifact that is there fails with an
\* error and leaves the backup directory as it was, in ZIP and in copy mode.
C7_CollisionFails ==
    [][(/\ pc = "polled"
        /\ pc' \in {"writing", "crashed"}
        /\ BackupKey \in Keys(dir)) => (dir' = dir /\ err' # "none")]_vars

\* C8: when a deletion of cleanup_backups fails, the cycle is not failed: the
\* main thread goes on with the rest of the deletions and with later polls.
C8_DeletionFailureTolerated ==
    err = "delete" => pc \in LoopPcs

\* C9: a snapshot write that reported an error has left no partial artifact
\* under the final name.
C9_AtomicWrite ==
    err = "write" => \A e \in dir : e.complete

\* C10 as claimed: at the step that starts writing the snapshot, at least
\* cooldown seconds have passed since the most recent recorded change.
C10_CooldownAtSnapshot ==
    [][(pc = "polled" /\ pc' = "writing") =>
           now - last_change_time >= cooldown]_vars

\* C10 as amended: when should_backup has answered True (the snapshot is the
\* main thread's next step), the clock it read was at least cooldown seconds
\* past the most recent change it saw; last_change_time is still that change,
\* or a change recorded after the poll read the clock.
C10_CooldownAtPoll ==
    (pc = "polled" /\ result) =>
        /\ r_now - r_lct2 >= cooldown
        /\ r_now <= now
        /\ r_lct2 # 0
        /\ last_change_time = r_lct2 \/ last_change_time >= r_now

\* the snapshot is about to start although a change has just been recorded
C10_Witness ==
    /\ pc = "polled"
    /\ result
    /\ cooldown = 2
    /\ r_now - r_lct2 = 2
    /\ last_change_time > r_lct2
    /\ now - last_change_time < cooldown

\* C11: last_backup_time never decreases, and the only step that changes it is
\* the stamp of a backup cycle whose snapshot is written in full; recording a
\* change, polling and cleanup leave it alone.
C11_BackupTimeMonotone ==
    [][last_backup_time' # last_backup_time =>
           /\ last_backup_time' > last_backup_time
           /\ pc = "stamp" /\ pc' = "cleanup"
           /\ \E e \in dir : Key(e) = cur /\ e.complete /\ e.cycle = cycles]_vars

\* the second cycle of a run has stamped last_backup_time
C11_Witness ==
    /\ pc = "cleanup"
    /\ cycles = 2
    /\ last_backup_time = now
    /\ \E e \in dir : e.cycle = 1 /\ e.complete /\ e.mtime < last_backup_time

\* a backup cycle is in flight: snapshot write, stamp or cleanup
InFlight == pc \in {"writing", "stamp", "cleanup", "deleting"}

\* C12: while a backup cycle is in flight the listener is not blocked: a
\* notification can be delivered, and it is recorded in last_change_time.
C12_ListenerNotBlocked ==
    InFlight => ENABLED (OnAnyEvent /\ last_change_time' = now /\ uncovered')

\* a change has been recorded during the snapshot write, another second on
C12_Witness ==
    /\ pc = "writing"
    /\ uncovered
    /\ last_change_time = now
    /\ \E e \in dir : Key(e) = cur /\ ~e.complete /\ e.mtime < now

\* artifacts of this run whose write has begun and not ended
HalfWritten == {e \in dir : e.cycle > 0 /\ ~e.complete}

\* C13: backup cycles are serialized.  While the loop sleeps or polls nothing of
\* a create_backup or cleanup_backups execution is pending, and at any time at
\* most one snapshot is being written, by the execution in progress.
C13_CyclesSerialized ==
    /\ pc \in {"sleep", "sb1", "sb2", "sb3", "sb4", "polled"} =>
           cur = <<>> /\ items = <<>> /\ todel = <<>> /\ HalfWritten = {}
    /\ pc \in LoopPcs => \A e \in HalfWritten : pc = "writing" /\ Key(e) = cur
    /\ Cardinality(HalfWritten) <= 1

\* the second cycle is writing its snapshot, the first one's is complete
C13_Witness ==
    /\ pc = "writing"
    /\ cycles = 2
    /\ \E e \in dir : e.cycle = 1 /\ e.complete
    /\ \E e \in HalfWritten : e.cycle = 2

\* entries that are no backup artifacts: the log file, an unrelated directory
NotBackup(e) == e.kind \in {"log", "other"}

\* C14: cleanup_backups counts and deletes backup artifacts only: an entry that
\* is none (backup_log.txt, an unrelated directory) is never in the sorted
\* listing and is never removed.
C14_OnlyBackupsCleaned ==
    [][/\ \A i \in 1..Len(items') : ~NotBackup(items'[i])
       /\ \A e \in dir : NotBackup(e) => e \in dir']_vars

\* C15: the artifacts cleanup_backups deletes are a function of names and
\* modification times: every order in which the directory can be listed gives
\* the same set to delete.
C15_DeterministicCleanup ==
    (pc = "cleanup" /\ ~Unlimited(buffer_size)) =>
        \A l1, l2 \in Listings(Candidates(dir)) :
            Range(Surplus(SortDesc(l1), buffer_size))
                = Range(Surplus(SortDesc(l2), buffer_size))

\* C16: when the interrupt has stopped the main thread no backup cycle is cut
\* off: no snapshot is half-written and no deletion of a cleanup is left over.
C16_InterruptSparesCycle ==
    pc = "stopped" =>
        /\ cur = <<>>
        /\ todel = <<>>
        /\ HalfWritten = {}

\* C17: while the source path does not exist, start does no more than report
\* it and return: the backup directory is not created, nor the log file, the
\* listener is not started and the loop is not entered.
C17_MissingSource ==
    ~src_exists =>
        /\ pc \in {"start", "exited"}
        /\ ~observing
        /\ ~log_open
        /\ LogFile \notin dir
        /\ dir = IF dir_exists THEN {Foreign, Earlier(use_zip)} ELSE {}
        /\ cycles = 0

\* start has returned, and there is still no backup directory
C17_Witness ==
    /\ ~src_exists
    /\ pc = "exited"
    /\ ~dir_exists

\* the values should_backup read from last_change_time during the call
ValuesRead == {r_lct1} \cup (IF r_now # 0 THEN {r_lct2} ELSE {})

\* C18: the value should_backup returns is the debounce predicate on one of the
\* values last_change_time held during the call, whatever the listener wrote
\* between the two reads.
C18_NoTornView ==
    pc = "polled" =>
        \E v \in ValuesRead : \A tp \in PollTimes :
            result = (v > last_backup_time /\ tp - v >= cooldown)

\* the listener wrote last_change_time between the two reads
C18_Witness ==
    /\ pc = "polled"
    /\ r_now # 0
    /\ r_lct1 # 0
    /\ r_lct2 > r_lct1
    /\ r_now - r_lct1 >= cooldown
    /\ ~result

\* what a notification leaves alone
EventFrame ==
    UNCHANGED <<last_backup_time, env, dir, dir_exists, now, tz, pc, poll, cur,
                cleanup, cycles, err, observing, log_open>>

\* C19 as claimed: every notification sets last_change_time to its time.
C19_EveryEventRecorded ==
    [][\A d \in BOOLEAN, s \in Structurals :
           (observing /\ Deliver(d, s)) => last_change_time' = now]_vars

\* C19 as amended: a notification for a file sets last_change_time to its time,
\* a notification for a directory leaves it as it is, and neither changes
\* last_backup_time, the configuration or the backup directory.
C19_FileEventRecorded ==
    [][\A d \in BOOLEAN, s \in Structurals :
           (observing /\ Deliver(d, s)) =>
               /\ last_change_time' = IF d THEN last_change_time ELSE now
               /\ EventFrame]_vars

\* a later notification has overwritten the time of an earlier one
C19_Witness ==
    /\ pc = "sb2"
    /\ r_lct1 # 0
    /\ last_change_time > r_lct1
    /\ last_change_time = now

\* C20: with buffer_size >= 1 the artifact a cycle has created is not removed
\* by the cleanup of that cycle.
C20_NewestSurvives ==
    (buffer_size >= 1 /\ pc \in {"cleanup", "deleting"}) =>
        \E e \in dir : e.cycle = cycles /\ Key(e) = cur

====
